---- MODULE Spec2Model ----
(***************************************************************************)
(* Model of the data-acquisition layer of src/scraper.py: the three        *)
(* paginated collectors (scrape_products, scrape_reviews_graphql,          *)
(* scrape_testimonials), the tabular sink save_to_csv and the main run     *)
(* that chains them.                                                       *)
(*                                                                         *)
(* The remote site is the environment: at every request it answers with    *)
(* any response of a bounded universe.  One action models one complete     *)
(* iteration of a collector's while loop (request, processing of the       *)
(* response, continuation update, pause).                                  *)
(*                                                                         *)
(* Encoding of values:                                                     *)
(*   - a text is a tuple of one-character strings;                         *)
(*   - an optional value is a tuple of length 0 (absent) or 1 (present);   *)
(*   - a Python/JSON value is a record with a tag field t.                 *)
(***************************************************************************)
EXTENDS Integers, Sequences, FiniteSets, TLC

VARIABLES
    main_pc,            \* position of the __main__ block
    \* scrape_products
    all_products,       \* list of product records
    current_url,        \* url of the next catalog page, NoUrl when none
    p_pc,               \* "idle", "loop" (at the while test) or "returned"
    p_events,           \* ghost: requests and pauses, in order
    p_log,              \* ghost: urls requested, in order
    p_next,             \* ghost: for each page served, the page its next link names
    p_expected,         \* ghost: well-formed records of the pages served so far
    p_failed,           \* ghost: the walk ended on a fetch failure
    p_containers,       \* ghost: the containers of the page served last
    \* scrape_reviews_graphql
    all_reviews,        \* list of review records
    cursor,             \* the `after` variable of the next request
    has_next,           \* the loop condition (a Python value)
    page,               \* page counter, used in the progress message only
    r_pc,               \* "idle", "loop" or "returned"
    r_events,           \* ghost: requests and pauses, in order
    r_log,              \* ghost: the `after` value of each request, in order
    r_expected,         \* ghost: one record per edge of the pages consumed whole
    r_end,              \* ghost: why the walk ended ("" while it runs)
    r_resp,             \* ghost: the response of the last request
    \* scrape_testimonials
    all_testimonials,   \* list of testimonial records
    t_page,             \* the local `page` of scrape_testimonials
    t_pc,               \* "idle", "loop" or "returned"
    t_events,           \* ghost: requests and pauses, in order
    t_branch,           \* ghost: how each response was consumed, in order
    t_expected,         \* ghost: the records of the pages consumed so far
    t_resp,             \* ghost: the response of the last request
    \* two walks over the same data, one served JSON and one served HTML
    twin_json,          \* [list, page, pc] of the walk served JSON
    twin_html,          \* [list, page, pc] of the walk served HTML fragments
    twin_data,          \* ghost: the pages of items served to both, in order
    \* save_to_csv and the file system
    folder_exists,      \* os.path.exists(DATA_FOLDER)
    files,              \* file name -> content (a tuple: absent, or <<table>>)
    console,            \* what save_to_csv printed, in order
    sink_raised,        \* save_to_csv raised (ValueError of csv.DictWriter)
    sink_call,          \* a call of save_to_csv made alone: [data, filename, pc], and
                        \* ghosts folder0, files0: the file system before the call
    \* the remote data behind the walks, and what the walks were served
    dataset,            \* what the review server answers to each `after` value
                        \* (absent until the value is first asked for)
    first_run,          \* ghost: [done, list, log] of an earlier review walk
    served,             \* ghost: the responses each collector got, in order
    catalog             \* the catalog page the site serves for each page number

pvars == <<all_products, current_url, p_pc, p_events, p_log, p_next, p_expected, p_failed,
          p_containers>>
rvars == <<all_reviews, cursor, has_next, page, r_pc, r_events, r_log, r_expected, r_end,
          r_resp>>
tvars == <<all_testimonials, t_page, t_pc, t_events, t_branch, t_expected, t_resp>>
wvars == <<twin_json, twin_html, twin_data>>
svars == <<folder_exists, files, console, sink_raised>>
cvars == <<sink_call>>
xvars == <<dataset, first_run, served, catalog>>
vars == <<main_pc, pvars, rvars, tvars, wvars, svars, cvars, xvars>>

(***************************************************************************)
(* Bounds of the model.                                                    *)
(***************************************************************************)
\* requests one walk may issue before the model stops following it
MaxFetches == 3
\* catalog pages the remote site has
NPages == 2

(***************************************************************************)
(* Texts and optional values.                                              *)
(***************************************************************************)
None == <<>>
Some(x) == <<x>>
IsNone(o) == o = <<>>

\* str.strip() / get_text(strip=True) of an element holding one text node
RECURSIVE LStrip(_)
LStrip(s) == IF s # <<>> /\ Head(s) = " " THEN LStrip(Tail(s)) ELSE s
RECURSIVE RStrip(_)
RStrip(s) ==
    IF s # <<>> /\ s[Len(s)] = " " THEN RStrip(SubSeq(s, 1, Len(s) - 1)) ELSE s
Strip(s) == RStrip(LStrip(s))

\* Python's `sub in s` on strings
Contains(sub, s) ==
    \E i \in 1..(Len(s) - Len(sub) + 1) : SubSeq(s, i, i + Len(sub) - 1) = sub

(***************************************************************************)
(* Urls.  BASE_URL + href is a string concatenation: an href without a     *)
(* leading slash yields a url on another host, which cannot be fetched.    *)
(***************************************************************************)
Pages == 1..NPages
NoUrl == [host |-> "", page |-> 0]
Url(j) == [host |-> "web-scraping.dev", page |-> j]
BrokenUrl(j) == [host |-> "web-scraping.devproducts", page |-> j]
Reachable(u) == u.host = "web-scraping.dev"

\* an href attribute value: absolute, site-relative ("/products?page=j") or
\* document-relative ("products?page=j")
Href(kind, j) == [kind |-> kind, page |-> j]
\* href if href.startswith("http") else BASE_URL + href
ResolveHref(href) ==
    IF href.kind = "http" THEN Url(href.page)
    ELSE IF href.kind = "slash" THEN Url(href.page)
    ELSE BrokenUrl(href.page)

(***************************************************************************)
(* Remote catalog pages.                                                   *)
(***************************************************************************)
TextNext == <<"N", "e", "x", "t">>
TextGt == <<">">>
TextLt == <<"<">>

\* a div.row.product container: each sub-element absent or holding a text
Container(n, p, d) == [name |-> n, price |-> p, desc |-> d]
FullA == Container(Some(<<"a">>), Some(<<"$", "1">>), Some(<<"d">>))
FullB == Container(Some(<<" ", "b">>), Some(<<"$", "2">>), Some(<<"d", " ">>))
LacksName == Container(None, Some(<<"$", "1">>), Some(<<"d">>))
LacksPrice == Container(Some(<<"a">>), None, Some(<<"d">>))
LacksDescription == Container(Some(<<"a">>), Some(<<"$", "1">>), None)
Lacking == {LacksName, LacksPrice, LacksDescription}
ContainerLists ==
    {<<>>, <<FullA>>, <<FullB>>, <<FullA, FullB>>}
    \cup {<<c>> : c \in Lacking}
    \cup {<<LacksName, FullA>>, <<FullB, LacksDescription>>}
    \cup {<<FullA, c, FullB>> : c \in Lacking}

\* an <a> of div.paging: its text, and its href attribute when it has one
Link(text, href) == [text |-> text, href |-> href]
PagingLists ==
    { <<>>, <<Link(TextNext, None)>>, <<Link(TextGt, Some(Href("empty", 0)))>>,
      <<Link(TextLt, Some(Href("slash", 1)))>>,
      <<Link(TextNext, Some(Href("bare", 2)))>> }
    \cup {<<Link(TextNext, Some(Href("slash", j)))>> : j \in Pages}
    \cup { <<Link(TextLt, Some(Href("slash", 1))), Link(TextGt, Some(Href("http", 2)))>>,
           <<Link(TextGt, None), Link(TextNext, Some(Href("slash", 2)))>> }

\* what requests.get + raise_for_status + BeautifulSoup yield: an exception, or
\* the parsed page
FetchFailed == [ok |-> FALSE, containers |-> <<>>, paging |-> <<>>]
ProductResponses ==
    {FetchFailed}
    \cup {[ok |-> TRUE, containers |-> c, paging |-> l] :
            c \in ContainerLists, l \in PagingLists}

(***************************************************************************)
(* scrape_products                                                         *)
(***************************************************************************)
\* mutant of ExtractProduct: a missing description is taken as empty
MutExtractProductNoDescription(p) ==
    IF IsNone(p.name) \/ IsNone(p.price)
    THEN [raised |-> TRUE, rec |-> [name |-> <<>>, price |-> <<>>, description |-> <<>>]]
    ELSE [raised |-> FALSE,
          rec |-> [name |-> Strip(p.name[1]), price |-> Strip(p.price[1]),
                   description |-> IF IsNone(p.desc) THEN <<>> ELSE Strip(p.desc[1])]]

\* the body of the try of one container: select_one(...) is None when the
\* sub-element is missing, and None.get_text raises
ExtractProduct(p) ==
    IF IsNone(p.name) \/ IsNone(p.price) \/ IsNone(p.desc)
    THEN [raised |-> TRUE, rec |-> [name |-> <<>>, price |-> <<>>, description |-> <<>>]]
    ELSE [raised |-> FALSE,
          rec |-> [name |-> Strip(p.name[1]), price |-> Strip(p.price[1]),
                   description |-> Strip(p.desc[1])]]

\* mutant of ExtractProducts: a container that raises ends the page
RECURSIVE MutExtractProductsBreaks(_, _)
MutExtractProductsBreaks(containers, acc) ==
    IF containers = <<>> THEN acc
    ELSE LET r == ExtractProduct(Head(containers))
         IN IF r.raised THEN acc
            ELSE MutExtractProductsBreaks(Tail(containers), Append(acc, r.rec))

\* for p in containers: try: ... all_products.append(...) except: continue
RECURSIVE ExtractProducts(_, _)
ExtractProducts(containers, acc) ==
    IF containers = <<>> THEN acc
    ELSE LET r == ExtractProduct(Head(containers))
         IN ExtractProducts(Tail(containers),
                            IF r.raised THEN acc ELSE Append(acc, r.rec))

\* ">" in link.get_text() or "Next" in link.get_text()
HasNextIndicator(text) == Contains(TextGt, text) \/ Contains(TextNext, text)

\* the pagination loop: the first link with a next indicator and a truthy href
RECURSIVE FindNextLink(_)
FindNextLink(links) ==
    IF links = <<>> THEN NoUrl
    ELSE LET link == Head(links)
         IN IF HasNextIndicator(link.text)
                  /\ ~IsNone(link.href) /\ link.href[1].kind # "empty"
            THEN ResolveHref(link.href[1])
            ELSE FindNextLink(Tail(links))

\* property side: the records a page holds and the page its paging links name
WellFormed(c) == ~IsNone(c.name) /\ ~IsNone(c.price) /\ ~IsNone(c.desc)
RecordOf(c) ==
    [name |-> Strip(c.name[1]), price |-> Strip(c.price[1]),
     description |-> Strip(c.desc[1])]
PageRecords(containers) ==
    LET good == SelectSeq(containers, WellFormed)
    IN [i \in 1..Len(good) |-> RecordOf(good[i])]
IsNextLink(l) ==
    /\ (\E i \in 1..Len(l.text) : l.text[i] = ">") \/ l.text = TextNext
    /\ l.href # None /\ l.href[1].kind # "empty"
PageNext(links) ==
    IF \E i \in 1..Len(links) : IsNextLink(links[i])
    THEN LET i == CHOOSE k \in 1..Len(links) :
                    IsNextLink(links[k]) /\ \A m \in 1..(k - 1) : ~IsNextLink(links[m])
             h == links[i].href[1]
         IN IF h.kind = "bare" THEN BrokenUrl(h.page) ELSE Url(h.page)
    ELSE NoUrl

\* mutant of PauseAfterPage: the pause is taken after every page
MutPauseAfterPageAlways(url) == TRUE

\* if current_url: time.sleep(1)
PauseAfterPage(url) == url # NoUrl

\* a fetch: the remote answers any response; a url on another host always fails
ProductAnswers(responses, url) ==
    IF Reachable(url) THEN responses ELSE {r \in responses : ~r.ok}

\* one iteration of `while current_url:` with the response resp: what it
\* does to the locals of the function
ProductsProgram(resp) ==
    IF ~resp.ok
    THEN \* except Exception: break
         /\ p_pc' = "returned"
         /\ UNCHANGED <<all_products, current_url>>
    ELSE LET next_link == FindNextLink(resp.paging)
         IN /\ all_products' = ExtractProducts(resp.containers, all_products)
            /\ current_url' = next_link
            /\ p_pc' = IF next_link # NoUrl THEN "loop" ELSE "returned"

\* the same iteration: what it adds to the history of the walk
ProductsHistory(resp) ==
    /\ p_log' = Append(p_log, current_url)
    /\ p_containers' = resp.containers
    /\ IF ~resp.ok
       THEN /\ p_events' = Append(p_events, "request")
            /\ p_failed' = TRUE
            /\ UNCHANGED <<p_next, p_expected>>
       ELSE /\ p_events' = IF PauseAfterPage(FindNextLink(resp.paging))
                           THEN p_events \o <<"request", "pause">>
                           ELSE Append(p_events, "request")
            /\ p_next' = Append(p_next, PageNext(resp.paging))
            /\ p_expected' = p_expected \o PageRecords(resp.containers)
            /\ UNCHANGED p_failed

ProductsIteration(resp) == ProductsProgram(resp) /\ ProductsHistory(resp)

ProductsWalk(responses) ==
    /\ p_pc = "loop"
    /\ Len(p_log) < MaxFetches
    /\ \E resp \in ProductAnswers(responses, current_url) : ProductsIteration(resp)
    /\ UNCHANGED <<main_pc, rvars, tvars, wvars, svars, cvars, xvars>>

ProductsStep == ProductsWalk(ProductResponses)

\* the first lines of scrape_products
ProductsStart ==
    /\ all_products = <<>>
    /\ current_url = Url(1)
    /\ p_pc = "loop"
    /\ p_events = <<>>
    /\ p_log = <<>>
    /\ p_next = <<>>
    /\ p_expected = <<>>
    /\ p_failed = FALSE
    /\ p_containers = <<>>

(***************************************************************************)
(* Python values held in records and loop variables.                       *)
(***************************************************************************)
PyNone == [t |-> "None"]
PyBool(b) == [t |-> "bool", v |-> b]
PyInt(n) == [t |-> "int", v |-> n]
PyStr(s) == [t |-> "str", v |-> s]
\* bool(v)
Truthy(v) ==
    CASE v.t = "None" -> FALSE
      [] v.t = "bool" -> v.v
      [] v.t = "int" -> v.v # 0
      [] v.t = "str" -> v.v # <<>>
\* d.get(key): the value, or None when the key is missing (an optional that is
\* absent); a JSON null is the present value PyNone
Get(o) == IF IsNone(o) THEN PyNone ELSE o[1]
\* d.get(key, default)
GetOr(o, default) == IF IsNone(o) THEN default ELSE o[1]

(***************************************************************************)
(* Remote GraphQL responses.                                               *)
(***************************************************************************)
\* an element of edges: a dict with a node dict ("node"), a dict without the
\* node key ("nonode"), a dict whose node is null ("nullnode"), or no dict at
\* all ("notdict")
Edge(kind, date, rating, text) ==
    [kind |-> kind, date |-> date, rating |-> rating, text |-> text]
EdgeOne == Edge("node", Some(PyStr(<<"d", "1">>)), Some(PyInt(5)), Some(PyStr(<<"x">>)))
EdgeTwo == Edge("node", Some(PyStr(<<"d", "2">>)), Some(PyInt(3)), Some(PyStr(<<"y">>)))
EdgeNoRating == Edge("node", Some(PyStr(<<"d", "3">>)), None, Some(PyNone))
EdgeNoNode == Edge("nonode", None, None, None)
EdgeNullNode == Edge("nullnode", None, None, None)
EdgeNotDict == Edge("notdict", None, None, None)
EdgeLists ==
    { <<>>, <<EdgeOne>>, <<EdgeOne, EdgeTwo>>, <<EdgeTwo, EdgeOne>>, <<EdgeNoNode>>,
      <<EdgeNoRating, EdgeOne>>, <<EdgeOne, EdgeNullNode>>, <<EdgeNotDict, EdgeTwo>> }

Cursors == {PyStr(<<"c", "1">>), PyStr(<<"c", "2">>)}
\* pageInfo: a dict ("dict"), missing ("missing") or null ("null")
PageInfo(kind, hasNextPage, endCursor) ==
    [kind |-> kind, hasNextPage |-> hasNextPage, endCursor |-> endCursor]
PageInfos ==
    {PageInfo("missing", None, None), PageInfo("null", None, None)}
    \cup {PageInfo("dict", h, c) :
            h \in {None, Some(PyBool(TRUE)), Some(PyBool(FALSE))},
            c \in {None} \cup {Some(x) : x \in Cursors}}

\* the outcome of requests.post + raise_for_status + response.json(): "error"
\* (network exception or error status), "undecodable" (the body is no JSON),
\* or the decoded document ("doc"); data tells whether data.reviews is a dict
\* ("dict"), missing ("missing") or null ("null")
ReviewResponse(kind, data, edges, pageInfo) ==
    [kind |-> kind, data |-> data, edges |-> edges, pageInfo |-> pageInfo]
ReviewResponses ==
    { ReviewResponse("error", "missing", <<>>, PageInfo("missing", None, None)),
      ReviewResponse("undecodable", "missing", <<>>, PageInfo("missing", None, None)),
      ReviewResponse("doc", "missing", <<>>, PageInfo("missing", None, None)),
      ReviewResponse("doc", "null", <<>>, PageInfo("missing", None, None)) }
    \cup {ReviewResponse("doc", "dict", e, i) : e \in EdgeLists, i \in PageInfos}

(***************************************************************************)
(* scrape_reviews_graphql                                                  *)
(***************************************************************************)
\* node = edge.get("node", {}) and the dict literal appended for it
ReviewOf(edge) ==
    IF edge.kind = "nonode"
    THEN [date |-> PyNone, stars |-> PyNone, text |-> PyNone]
    ELSE [date |-> Get(edge.date), stars |-> Get(edge.rating), text |-> Get(edge.text)]

\* for edge in edges: ... all_reviews.append(...); edge.get or node.get raises
\* AttributeError on an edge or a node that is no dict
RECURSIVE AppendReviews(_, _)
AppendReviews(edges, acc) ==
    IF edges = <<>> THEN [raised |-> FALSE, list |-> acc]
    ELSE IF Head(edges).kind \in {"nullnode", "notdict"}
         THEN [raised |-> TRUE, list |-> acc]
         ELSE AppendReviews(Tail(edges), Append(acc, ReviewOf(Head(edges))))

\* property side: one record per edge of a page
EdgeRecord(e) ==
    [date |-> IF e.date = <<>> THEN PyNone ELSE e.date[1],
     stars |-> IF e.rating = <<>> THEN PyNone ELSE e.rating[1],
     text |-> IF e.text = <<>> THEN PyNone ELSE e.text[1]]
PageReviews(edges) == [i \in 1..Len(edges) |-> EdgeRecord(edges[i])]

\* mutant of NextCursor: the cursor is never advanced
MutNextCursorStays(page_info) == PyNone

\* cursor = page_info.get("endCursor")
NextCursor(page_info) == Get(page_info.endCursor)

\* the body of the try for a decoded document with non-empty edges
ReviewsConsume(resp) ==
    LET done == AppendReviews(resp.edges, all_reviews)
        page_info == resp.pageInfo
    IN /\ all_reviews' = done.list
       /\ IF done.raised
          THEN \* an edge raised: except Exception: break
               /\ r_pc' = "returned"
               /\ r_end' = "edge"
               /\ r_events' = Append(r_events, "request")
               /\ UNCHANGED <<cursor, has_next, page, r_expected>>
          ELSE IF page_info.kind = "null"
          THEN \* page_info is None: page_info.get raises
               /\ r_pc' = "returned"
               /\ r_end' = "pageinfo"
               /\ r_events' = Append(r_events, "request")
               /\ UNCHANGED <<cursor, has_next, page, r_expected>>
          ELSE /\ has_next' = GetOr(page_info.hasNextPage, PyBool(FALSE))
               /\ cursor' = NextCursor(page_info)
               /\ page' = page + 1
               /\ r_events' = r_events \o <<"request", "pause">>
               /\ r_expected' = r_expected \o PageReviews(resp.edges)
               /\ r_pc' = IF Truthy(has_next') THEN "loop" ELSE "returned"
               /\ r_end' = IF Truthy(has_next') THEN "" ELSE "hasnext"

\* mutant of ReviewsFailed: a failed request discards what was gathered
MutReviewsFailedDiscards(resp) ==
    /\ r_pc' = "returned"
    /\ r_end' = IF resp.kind = "error" THEN "fetch" ELSE "decode"
    /\ r_events' = Append(r_events, "request")
    /\ all_reviews' = <<>>
    /\ UNCHANGED <<cursor, has_next, page, r_expected>>

\* except Exception as e: print(...); break, reached from post,
\* raise_for_status, json() or a .get on None
ReviewsFailed(resp) ==
    /\ r_pc' = "returned"
    /\ r_end' = IF resp.kind = "error" THEN "fetch" ELSE "decode"
    /\ r_events' = Append(r_events, "request")
    /\ UNCHANGED <<all_reviews, cursor, has_next, page, r_expected>>

\* mutant of ReviewsEmpty: an empty page ends the walk only when the server
\* says there is no next page
MutReviewsEmptyTrustsFlag(resp) ==
    LET flag == IF resp.pageInfo.kind = "dict"
                THEN GetOr(resp.pageInfo.hasNextPage, PyBool(FALSE))
                ELSE PyBool(FALSE)
    IN /\ r_pc' = IF Truthy(flag) THEN "loop" ELSE "returned"
       /\ r_end' = IF Truthy(flag) THEN "" ELSE "empty"
       /\ r_events' = IF Truthy(flag) THEN r_events \o <<"request", "pause">>
                      ELSE Append(r_events, "request")
       /\ UNCHANGED <<all_reviews, cursor, has_next, page, r_expected>>

\* if not edges: print(...); break
ReviewsEmpty(resp) ==
    /\ r_pc' = "returned"
    /\ r_end' = "empty"
    /\ r_events' = Append(r_events, "request")
    /\ UNCHANGED <<all_reviews, cursor, has_next, page, r_expected>>

\* one iteration of `while has_next:` with the response resp
ReviewsIteration(resp) ==
    /\ r_log' = Append(r_log, cursor)
    /\ r_resp' = resp
    /\ IF resp.kind \in {"error", "undecodable"} \/ resp.data = "null"
       THEN ReviewsFailed(resp)
       ELSE IF resp.edges = <<>>
       THEN ReviewsEmpty(resp)
       ELSE ReviewsConsume(resp)

ReviewsWalk(responses) ==
    /\ r_pc = "loop"
    /\ Len(r_log) < MaxFetches
    /\ \E resp \in responses : ReviewsIteration(resp)
    /\ UNCHANGED <<main_pc, pvars, tvars, wvars, svars, cvars, xvars>>

ReviewsStep == ReviewsWalk(ReviewResponses)

\* the first lines of scrape_reviews_graphql
ReviewsStart ==
    /\ r_resp = ReviewResponse("none", "missing", <<>>, PageInfo("missing", None, None))
    /\ all_reviews = <<>>
    /\ cursor = PyNone
    /\ has_next = PyBool(TRUE)
    /\ page = 1
    /\ r_pc = "loop"
    /\ r_events = <<>>
    /\ r_log = <<>>
    /\ r_expected = <<>>
    /\ r_end = ""

ReviewsIdle ==
    /\ r_resp = ReviewResponse("none", "missing", <<>>, PageInfo("missing", None, None))
    /\ all_reviews = <<>>
    /\ cursor = PyNone
    /\ has_next = PyBool(TRUE)
    /\ page = 1
    /\ r_pc = "idle"
    /\ r_events = <<>>
    /\ r_log = <<>>
    /\ r_expected = <<>>
    /\ r_end = ""

ProductsIdle ==
    /\ all_products = <<>>
    /\ current_url = NoUrl
    /\ p_pc = "idle"
    /\ p_events = <<>>
    /\ p_log = <<>>
    /\ p_next = <<>>
    /\ p_expected = <<>>
    /\ p_failed = FALSE
    /\ p_containers = <<>>

(***************************************************************************)
(* Remote testimonial responses.                                           *)
(***************************************************************************)
\* an element of a decoded JSON list: a dict ("dict") whose text and rating
\* keys are present or not, or something that is no dict ("notdict")
JsonItem(kind, text, rating) == [kind |-> kind, text |-> text, rating |-> rating]
ItemA == JsonItem("dict", Some(PyStr(<<"a">>)), Some(PyInt(5)))
ItemB == JsonItem("dict", Some(PyStr(<<" ", "b">>)), Some(PyInt(3)))
ItemBare == JsonItem("dict", None, None)
ItemNull == JsonItem("dict", Some(PyNone), Some(PyNone))
ItemSix == JsonItem("dict", Some(PyStr(<<"a">>)), Some(PyInt(6)))
ItemNotDict == JsonItem("notdict", None, None)

\* resp.json(): it raises ("notjson"), or yields a list ("list"), an object
\* ("object", data its 'data' key when present) or another value ("scalar")
JsonDoc(kind, items, data) == [kind |-> kind, items |-> items, data |-> data]
NotJson == JsonDoc("notjson", <<>>, None)
JsonList(items) == JsonDoc("list", items, None)
JsonObject(data) == JsonDoc("object", <<>>, data)
JsonScalar == JsonDoc("scalar", <<>>, None)

\* a div.testimonial of the parsed body: the text of its p.text when it has
\* one, the number of svg elements in its span.rating when it has one
Div(text, rating) == [text |-> text, rating |-> rating]
DivA == Div(Some(<<"a">>), Some(5))
DivB == Div(Some(<<" ", "b">>), Some(3))
DivBare == Div(None, None)
DivBlank == Div(Some(<<" ">>), Some(0))
DivSix == Div(Some(<<"a">>), Some(6))
DivLists == {<<>>, <<DivA>>, <<DivA, DivB>>, <<DivBare>>, <<DivBlank, DivA>>, <<DivSix>>}

\* requests.get: it raises ("error"), or answers a status other than 200
\* ("status"), or 200 with a body ("ok"); json is what resp.json() makes of
\* the body and html the div.testimonial elements BeautifulSoup finds in it
TestimonialResponse(kind, json, html) == [kind |-> kind, json |-> json, html |-> html]
TestimonialResponses ==
    {TestimonialResponse("error", NotJson, <<>>), TestimonialResponse("status", NotJson, <<>>)}
    \* a status other than 200 whose body holds testimonials
    \cup { TestimonialResponse("status", JsonList(<<ItemA>>), <<>>),
           TestimonialResponse("status", NotJson, <<DivA>>) }
    \cup {TestimonialResponse("ok", NotJson, h) : h \in DivLists}
    \cup {TestimonialResponse("ok", j, <<>>) :
            j \in { JsonList(<<>>), JsonList(<<ItemA>>), JsonList(<<ItemA, ItemB>>),
                    JsonList(<<ItemBare>>), JsonList(<<ItemNull, ItemA>>),
                    JsonList(<<ItemSix>>), JsonList(<<ItemA, ItemNotDict>>),
                    JsonObject(None), JsonObject(Some(<<ItemB>>)), JsonObject(Some(<<>>)),
                    JsonScalar }}
    \* a JSON body whose strings hold testimonial markup
    \cup {TestimonialResponse("ok", j, <<DivA>>) :
            j \in {JsonList(<<ItemNotDict>>), JsonList(<<ItemB, ItemNotDict>>), JsonScalar}}

(***************************************************************************)
(* scrape_testimonials                                                     *)
(***************************************************************************)
\* the dict literal of the JSON branch
JsonTestimonial(item) ==
    [text |-> GetOr(item.text, PyStr(<<>>)), stars |-> GetOr(item.rating, PyInt(0))]

\* for item in items: all_testimonials.append(...); item.get raises on an item
\* that is no dict
RECURSIVE AppendJsonItems(_, _)
AppendJsonItems(items, acc) ==
    IF items = <<>> THEN [raised |-> FALSE, list |-> acc]
    ELSE IF Head(items).kind = "notdict"
         THEN [raised |-> TRUE, list |-> acc]
         ELSE AppendJsonItems(Tail(items), Append(acc, JsonTestimonial(Head(items))))

\* the dict literal of the HTML branch
HtmlTestimonial(t) ==
    [text |-> IF IsNone(t.text) THEN PyStr(<<>>) ELSE PyStr(Strip(t.text[1])),
     stars |-> IF IsNone(t.rating) THEN PyInt(0) ELSE PyInt(t.rating[1])]

\* for t in items: ... all_testimonials.append(...)
RECURSIVE AppendHtmlItems(_, _)
AppendHtmlItems(items, acc) ==
    IF items = <<>> THEN acc
    ELSE AppendHtmlItems(Tail(items), Append(acc, HtmlTestimonial(Head(items))))

\* the result of one iteration: the list, the page counter, whether the loop
\* was left, the requests and pauses made, and the branch that consumed the body
Iterated(list, pg, stop, events, branch) ==
    [list |-> list, page |-> pg, stop |-> stop, events |-> events, branch |-> branch]

\* mutant of HtmlFallback: the HTML branch takes no pause
MutHtmlFallbackNoPause(list, pg, resp, partial) ==
    IF resp.html = <<>>
    THEN Iterated(list, pg, TRUE, <<"request">>,
                  IF partial THEN "json-partial" ELSE "html-empty")
    ELSE Iterated(AppendHtmlItems(resp.html, list), pg + 1, FALSE, <<"request">>,
                  IF partial THEN "json-partial+html" ELSE "html")

\* the except: branch of the inner try, entered with the list as the JSON
\* branch left it
HtmlFallback(list, pg, resp, partial) ==
    IF resp.html = <<>>
    THEN Iterated(list, pg, TRUE, <<"request">>,
                  IF partial THEN "json-partial" ELSE "html-empty")
    ELSE Iterated(AppendHtmlItems(resp.html, list), pg + 1, FALSE,
                  <<"request", "pause">>,
                  IF partial THEN "json-partial+html" ELSE "html")

\* the inner try: the JSON branch
JsonBranch(list, pg, resp) ==
    IF resp.json.kind \in {"notjson", "scalar"}
    THEN \* resp.json() or data.get raised
         HtmlFallback(list, pg, resp, FALSE)
    ELSE LET items == IF resp.json.kind = "list" THEN resp.json.items
                      ELSE GetOr(resp.json.data, <<>>)
             done == AppendJsonItems(items, list)
         IN IF items = <<>> THEN Iterated(list, pg, TRUE, <<"request">>, "json-empty")
            ELSE IF done.raised
                 THEN HtmlFallback(done.list, pg, resp, done.list # list)
                 ELSE Iterated(done.list, pg + 1, FALSE, <<"request">>, "json")

\* mutant of TestimonialsIteration: the status code is not looked at
MutTestimonialsIterationAnyStatus(list, pg, resp) ==
    IF resp.kind = "error" THEN Iterated(list, pg, TRUE, <<"request">>, "error")
    ELSE JsonBranch(list, pg, resp)

\* one iteration of `while True:` with the response resp
TestimonialsIteration(list, pg, resp) ==
    IF resp.kind = "error" THEN Iterated(list, pg, TRUE, <<"request">>, "error")
    ELSE IF resp.kind = "status" THEN Iterated(list, pg, TRUE, <<"request">>, "status")
    ELSE JsonBranch(list, pg, resp)

\* property side: the records a consumed response holds
JsonRecord(item) ==
    [text |-> IF item.text = None THEN PyStr(<<>>) ELSE item.text[1],
     stars |-> IF item.rating = None THEN PyInt(0) ELSE item.rating[1]]
DivRecord(d) ==
    [text |-> IF d.text = None THEN PyStr(<<>>) ELSE PyStr(Strip(d.text[1])),
     stars |-> IF d.rating = None THEN PyInt(0) ELSE PyInt(d.rating[1])]
JsonItemsOf(resp) ==
    IF resp.json.kind = "list" THEN resp.json.items
    ELSE IF resp.json.kind = "object" /\ resp.json.data # None THEN resp.json.data[1]
    ELSE <<>>
\* the dict items that precede the first item that is no dict
DictPrefix(items) ==
    LET n == CHOOSE k \in 0..Len(items) :
                 /\ \A i \in 1..k : items[i].kind = "dict"
                 /\ k < Len(items) => items[k + 1].kind # "dict"
    IN SubSeq(items, 1, n)
PageTestimonials(resp) ==
    LET items == JsonItemsOf(resp)
        dicts == DictPrefix(items)
    IN IF resp.kind # "ok" THEN <<>>
       ELSE IF items # <<>> /\ Len(dicts) = Len(items)
            THEN [i \in 1..Len(items) |-> JsonRecord(items[i])]
            ELSE [i \in 1..Len(dicts) |-> JsonRecord(dicts[i])]
                 \o [i \in 1..Len(resp.html) |-> DivRecord(resp.html[i])]

\* one iteration of the walk with the response resp, on the variables
TestimonialsServed(resp) ==
    LET it == TestimonialsIteration(all_testimonials, t_page, resp)
    IN /\ all_testimonials' = it.list
       /\ t_page' = it.page
       /\ t_pc' = IF it.stop THEN "returned" ELSE "loop"
       /\ t_events' = t_events \o it.events
       /\ t_branch' = Append(t_branch, it.branch)
       /\ t_resp' = resp
       /\ t_expected' = IF ~it.stop
                        THEN t_expected \o PageTestimonials(resp)
                        ELSE t_expected

TestimonialsWalk(responses) ==
    /\ t_pc = "loop"
    /\ Len(t_branch) < MaxFetches
    /\ \E resp \in responses : TestimonialsServed(resp)
    /\ UNCHANGED <<main_pc, pvars, rvars, wvars, svars, cvars, xvars>>

TestimonialsStep == TestimonialsWalk(TestimonialResponses)

\* the first lines of scrape_testimonials
TestimonialsStart ==
    /\ all_testimonials = <<>>
    /\ t_page = 1
    /\ t_pc = "loop"
    /\ t_events = <<>>
    /\ t_branch = <<>>
    /\ t_expected = <<>>
    /\ t_resp = TestimonialResponse("none", NotJson, <<>>)

TestimonialsIdle ==
    /\ all_testimonials = <<>>
    /\ t_page = 1
    /\ t_pc = "idle"
    /\ t_events = <<>>
    /\ t_branch = <<>>
    /\ t_expected = <<>>
    /\ t_resp = TestimonialResponse("none", NotJson, <<>>)

TwinIdle ==
    /\ twin_json = [list |-> <<>>, page |-> 1, pc |-> "idle"]
    /\ twin_html = [list |-> <<>>, page |-> 1, pc |-> "idle"]
    /\ twin_data = <<>>

(***************************************************************************)
(* save_to_csv                                                             *)
(***************************************************************************)
PRODUCTS_FILE == "products.csv"
REVIEWS_FILE == "reviews.csv"
TESTIMONIALS_FILE == "testimonials.csv"
FileNames == {PRODUCTS_FILE, REVIEWS_FILE, TESTIMONIALS_FILE}

\* a written file: the header and the rows, each row a function of the header
Table(header, rows) == [header |-> header, rows |-> rows]
\* restval of csv.DictWriter: the cell written for a key the row lacks
RestVal == <<>>

\* DictWriter._dict_to_list: a key outside fieldnames raises ValueError
\* (extrasaction='raise'); a missing key is filled with restval
DictToList(rowdict, fieldnames) ==
    IF DOMAIN rowdict \ fieldnames # {}
    THEN [raised |-> TRUE, row |-> [k \in fieldnames |-> RestVal]]
    ELSE [raised |-> FALSE,
          row |-> [k \in fieldnames |->
                     IF k \in DOMAIN rowdict THEN rowdict[k] ELSE RestVal]]

\* writer.writerows(data): rows are written one by one until one raises
RECURSIVE WriteRows(_, _, _)
WriteRows(data, fieldnames, written) ==
    IF data = <<>> THEN [raised |-> FALSE, rows |-> written]
    ELSE LET r == DictToList(Head(data), fieldnames)
         IN IF r.raised THEN [raised |-> TRUE, rows |-> written]
            ELSE WriteRows(Tail(data), fieldnames, Append(written, r.row))

\* mutant of SaveToCsv: the folder is created before the emptiness test
MutSaveToCsvMakesFolder(data, filename) ==
    IF data = <<>>
    THEN /\ console' = Append(console, <<"No data to save for", filename>>)
         /\ folder_exists' = TRUE
         /\ UNCHANGED <<files, sink_raised>>
    ELSE LET keys == DOMAIN data[1]
             out == WriteRows(data, keys, <<>>)
         IN /\ folder_exists' = TRUE
            /\ files' = [files EXCEPT ![filename] = Some(Table(keys, out.rows))]
            /\ sink_raised' = out.raised
            /\ console' = IF out.raised THEN console
                          ELSE Append(console, <<"Saved", filename>>)

\* save_to_csv(data, DATA_FOLDER, filename)
SaveToCsv(data, filename) ==
    IF data = <<>>
    THEN \* if not data: print(...); return
         /\ console' = Append(console, <<"No data to save for", filename>>)
         /\ UNCHANGED <<folder_exists, files, sink_raised>>
    ELSE LET keys == DOMAIN data[1]
             out == WriteRows(data, keys, <<>>)
         IN /\ folder_exists' = TRUE
            /\ files' = [files EXCEPT ![filename] = Some(Table(keys, out.rows))]
            /\ sink_raised' = out.raised
            /\ console' = IF out.raised THEN console
                          ELSE Append(console, <<"Saved", filename>>)

\* record lists handed to a call of save_to_csv made alone
RowAB == [a |-> <<"x">>, b |-> <<"y">>]
RowAB2 == [a |-> <<"z">>, b |-> <<"y", ",">>]
RowA == [a |-> <<"w">>]
RowABC == [a |-> <<"x">>, b |-> <<"y">>, c |-> <<"v">>]
SinkInputs ==
    { <<>>, <<RowAB>>, <<RowAB, RowAB2>>, <<RowAB, RowA>>, <<RowAB, RowABC>>,
      <<RowAB, RowABC, RowAB2>>, <<RowA, RowAB>>, <<RowAB, RowA, RowABC>>,
      <<RowAB, RowAB2, RowA>>, <<RowABC, RowAB>> }

\* the output of an earlier run
StaleTable == Table({"old"}, <<[old |-> <<"o">>]>>)
NoFiles == [f \in FileNames |-> None]
StaleFiles == [f \in FileNames |-> Some(StaleTable)]

SinkStep ==
    /\ sink_call.pc = "call"
    /\ SaveToCsv(sink_call.data, sink_call.filename)
    /\ sink_call' = [sink_call EXCEPT !.pc = IF sink_raised' THEN "raised" ELSE "returned"]
    /\ UNCHANGED <<main_pc, pvars, rvars, tvars, wvars, xvars>>

NoSinkCall ==
    sink_call = [data |-> <<>>, filename |-> "", pc |-> "idle",
                 folder0 |-> FALSE, files0 |-> NoFiles]

SinkIdle ==
    /\ folder_exists = FALSE
    /\ files = NoFiles
    /\ console = <<>>
    /\ sink_raised = FALSE
    /\ NoSinkCall

(***************************************************************************)
(* The remote data when no specification fixes it.                         *)
(***************************************************************************)
\* the values the `after` variable of a review request takes
AfterValues == {PyNone} \cup Cursors
NoDataset == [c \in AfterValues |-> None]
NoRun == [done |-> FALSE, list |-> <<>>, log |-> <<>>]
NothingServed == [p |-> <<>>, r |-> <<>>, t |-> <<>>]
NoCatalog == [j \in Pages |-> FetchFailed]
RemoteIdle ==
    /\ dataset = NoDataset
    /\ first_run = NoRun
    /\ served = NothingServed
    /\ catalog = NoCatalog

(***************************************************************************)
(* One collector called alone: any one of the three walks.                 *)
(***************************************************************************)
InitCollectors ==
    /\ main_pc = "none"
    /\ RemoteIdle
    /\ SinkIdle
    /\ TwinIdle
    /\ \/ ProductsStart /\ ReviewsIdle /\ TestimonialsIdle
       \/ ProductsIdle /\ ReviewsStart /\ TestimonialsIdle
       \/ ProductsIdle /\ ReviewsIdle /\ TestimonialsStart
NextCollectors == ProductsStep \/ ReviewsStep \/ TestimonialsStep
SpecCollectors == InitCollectors /\ [][NextCollectors]_vars

(***************************************************************************)
(* save_to_csv called alone, on any record list and any earlier output.    *)
(***************************************************************************)
InitSink ==
    /\ main_pc = "none"
    /\ RemoteIdle
    /\ ProductsIdle /\ ReviewsIdle /\ TestimonialsIdle /\ TwinIdle
    /\ \/ folder_exists = FALSE /\ files = NoFiles
       \/ folder_exists = TRUE /\ files = NoFiles
       \/ folder_exists = TRUE /\ files = StaleFiles
    /\ \E d \in SinkInputs, f \in FileNames :
         sink_call = [data |-> d, filename |-> f, pc |-> "call",
                      folder0 |-> folder_exists, files0 |-> files]
    /\ console = <<>>
    /\ sink_raised = FALSE
NextSink == SinkStep
SpecSink == InitSink /\ [][NextSink]_vars

(***************************************************************************)
(* Two testimonial walks over the same pages of items, one deployment      *)
(* answering JSON and the other HTML fragments.                            *)
(***************************************************************************)
\* an item of the backing data: its text and its rating (0..5), each of which
\* may be missing
Item(text, rating) == [text |-> text, rating |-> rating]
DataPages ==
    { <<>>,
      <<Item(Some(<<"a">>), Some(5))>>,
      <<Item(Some(<<"a">>), Some(5)), Item(Some(<<"c">>), Some(0))>>,
      <<Item(None, None)>>,
      <<Item(Some(<<"c">>), None), Item(None, Some(4))>>,
      <<Item(Some(<<" ", "b">>), Some(3))>>,
      <<Item(Some(<<>>), Some(1))>> }

\* the JSON deployment: one object per item, a missing field left out
RenderJson(items) ==
    JsonList([i \in 1..Len(items) |->
                JsonItem("dict",
                         IF IsNone(items[i].text) THEN None
                         ELSE Some(PyStr(items[i].text[1])),
                         IF IsNone(items[i].rating) THEN None
                         ELSE Some(PyInt(items[i].rating[1])))])
\* the HTML deployment: one div.testimonial per item, p.text and span.rating
\* (one svg per star) left out when the field is missing
RenderHtml(items) ==
    [i \in 1..Len(items) |-> Div(items[i].text, items[i].rating)]

TwinWalk(w, resp) ==
    IF w.pc # "loop" THEN w
    ELSE LET it == TestimonialsIteration(w.list, w.page, resp)
         IN [list |-> it.list, page |-> it.page,
             pc |-> IF it.stop THEN "returned" ELSE "loop"]

\* both deployments answer the k-th request from the same k-th page of items,
\* or both fail it
TwinStep ==
    /\ twin_json.pc = "loop" \/ twin_html.pc = "loop"
    /\ Len(twin_data) < MaxFetches
    /\ \E kind \in {"error", "status", "ok"}, items \in DataPages :
         /\ kind # "ok" => items = <<>>
         /\ twin_json' = TwinWalk(twin_json,
                             TestimonialResponse(kind,
                                 IF kind = "ok" THEN RenderJson(items) ELSE NotJson, <<>>))
         /\ twin_html' = TwinWalk(twin_html,
                             TestimonialResponse(kind, NotJson,
                                 IF kind = "ok" THEN RenderHtml(items) ELSE <<>>))
         /\ twin_data' = Append(twin_data, items)
    /\ UNCHANGED <<main_pc, pvars, rvars, tvars, svars, cvars, xvars>>

InitTwin ==
    /\ main_pc = "none"
    /\ RemoteIdle
    /\ ProductsIdle /\ ReviewsIdle /\ TestimonialsIdle /\ SinkIdle
    /\ twin_json = [list |-> <<>>, page |-> 1, pc |-> "loop"]
    /\ twin_html = [list |-> <<>>, page |-> 1, pc |-> "loop"]
    /\ twin_data = <<>>
NextTwin == TwinStep
SpecTwin == InitTwin /\ [][NextTwin]_vars

(***************************************************************************)
(* scrape_reviews_graphql called twice, one call after the other, against  *)
(* a server whose data does not change: it answers an `after` value it was *)
(* asked before as it answered then.  No request fails.                    *)
(***************************************************************************)
DatasetResponses == {r \in ReviewResponses : r.kind # "error"}
DatasetAnswers(after) ==
    IF IsNone(dataset[after]) THEN DatasetResponses ELSE {dataset[after][1]}

\* one iteration of `while has_next:` of the call under way
RerunStep ==
    /\ r_pc = "loop"
    /\ Len(r_log) < MaxFetches
    /\ \E resp \in DatasetAnswers(cursor) :
          /\ ReviewsIteration(resp)
          /\ dataset' = [dataset EXCEPT ![cursor] = Some(resp)]
    /\ UNCHANGED <<first_run, served, catalog>>
    /\ UNCHANGED <<main_pc, pvars, tvars, wvars, svars, cvars>>

\* mutant of RerunCall: the cursor outlives the call (a module-level variable)
MutRerunCallKeepsCursor ==
    /\ r_pc = "returned"
    /\ ~first_run.done
    /\ first_run' = [done |-> TRUE, list |-> all_reviews, log |-> r_log]
    /\ all_reviews' = <<>>
    /\ cursor' = cursor
    /\ has_next' = PyBool(TRUE)
    /\ page' = 1
    /\ r_pc' = "loop"
    /\ r_events' = <<>>
    /\ r_log' = <<>>
    /\ r_expected' = <<>>
    /\ r_end' = ""
    /\ r_resp' = ReviewResponse("none", "missing", <<>>, PageInfo("missing", None, None))
    /\ UNCHANGED <<dataset, served, catalog>>
    /\ UNCHANGED <<main_pc, pvars, tvars, wvars, svars, cvars>>

\* the first call has returned and the function is called again: its locals
\* are initialised anew (the ghosts of the walk start again with them)
RerunCall ==
    /\ r_pc = "returned"
    /\ ~first_run.done
    /\ first_run' = [done |-> TRUE, list |-> all_reviews, log |-> r_log]
    /\ all_reviews' = <<>>
    /\ cursor' = PyNone
    /\ has_next' = PyBool(TRUE)
    /\ page' = 1
    /\ r_pc' = "loop"
    /\ r_events' = <<>>
    /\ r_log' = <<>>
    /\ r_expected' = <<>>
    /\ r_end' = ""
    /\ r_resp' = ReviewResponse("none", "missing", <<>>, PageInfo("missing", None, None))
    /\ UNCHANGED <<dataset, served, catalog>>
    /\ UNCHANGED <<main_pc, pvars, tvars, wvars, svars, cvars>>

InitRerun ==
    /\ main_pc = "none"
    /\ ProductsIdle /\ TestimonialsIdle /\ TwinIdle /\ SinkIdle
    /\ ReviewsStart
    /\ RemoteIdle
NextRerun == RerunStep \/ RerunCall
SpecRerun == InitRerun /\ [][NextRerun]_vars

(***************************************************************************)
(* scrape_products run to its end against a site with a fixed catalog: the *)
(* page served for a page number never changes.  The walk is not cut       *)
(* short and keeps no history, and the pages hold no well-formed product,  *)
(* so a walk that comes back to a page is in the state it was in before.   *)
(* The thread of the walk is the only one: it takes its next iteration     *)
(* whenever it has one (weak fairness).                                    *)
(***************************************************************************)
LivePages ==
    {FetchFailed}
    \cup {[ok |-> TRUE, containers |-> c, paging |-> l] :
            c \in {<<>>} \cup {<<x>> : x \in Lacking}, l \in PagingLists}

\* the catalogs: the next link of a page names another page, so every
\* iteration of the walk changes current_url
LiveCatalogs ==
    {c \in [Pages -> LivePages] : \A j \in Pages : FindNextLink(c[j].paging) # Url(j)}

\* requests.get(current_url) against the fixed catalog
CatalogAnswer(url) == IF Reachable(url) THEN catalog[url.page] ELSE FetchFailed

LiveProductsStep ==
    /\ p_pc = "loop"
    /\ ProductsProgram(CatalogAnswer(current_url))
    /\ UNCHANGED <<p_events, p_log, p_next, p_expected, p_failed, p_containers>>
    /\ UNCHANGED <<dataset, first_run, served, catalog>>
    /\ UNCHANGED <<main_pc, rvars, tvars, wvars, svars, cvars>>

InitLive ==
    /\ main_pc = "none"
    /\ ProductsStart /\ ReviewsIdle /\ TestimonialsIdle /\ TwinIdle /\ SinkIdle
    /\ dataset = NoDataset
    /\ first_run = NoRun
    /\ served = NothingServed
    /\ catalog \in LiveCatalogs
NextLive == LiveProductsStep
SpecLive == InitLive /\ [][NextLive]_vars /\ WF_vars(LiveProductsStep)

(***************************************************************************)
(* The __main__ block: the three collectors in sequence, each followed by  *)
(* its save_to_csv.  An exception that leaves a call ends the run.         *)
(***************************************************************************)
MainProductResponses ==
    { [ok |-> FALSE, containers |-> <<>>, paging |-> <<>>],
      [ok |-> TRUE,
       containers |-> <<FullA>>,
       paging |-> <<Link(TextNext, Some(Href("slash", 2)))>>],
      [ok |-> TRUE,
       containers |-> <<Container(Some(<<"a">>), None, Some(<<"d">>))>>,
       paging |-> <<>>] }
MainReviewResponses ==
    { ReviewResponse("error", "missing", <<>>, PageInfo("missing", None, None)),
      ReviewResponse("doc", "dict", <<EdgeOne>>,
                     PageInfo("dict", Some(PyBool(TRUE)), Some(PyStr(<<"c", "1">>)))),
      ReviewResponse("doc", "dict", <<EdgeOne, EdgeNullNode>>,
                     PageInfo("dict", Some(PyBool(FALSE)), None)),
      ReviewResponse("doc", "dict", <<>>, PageInfo("missing", None, None)) }
MainTestimonialResponses ==
    { TestimonialResponse("error", NotJson, <<>>),
      TestimonialResponse("status", NotJson, <<>>),
      TestimonialResponse("ok", NotJson, <<DivA>>),
      TestimonialResponse("ok", JsonList(<<ItemB>>), <<>>) }

\* products_data = scrape_products()
MainCallProducts ==
    /\ main_pc = "start"
    /\ main_pc' = "products"
    /\ all_products' = <<>>
    /\ current_url' = Url(1)
    /\ p_pc' = "loop"
    /\ UNCHANGED <<p_events, p_log, p_next, p_expected, p_failed, p_containers>>
    /\ UNCHANGED <<rvars, tvars, wvars, svars, cvars, xvars>>

MainProductsStep ==
    /\ main_pc = "products"
    /\ ProductsWalk(MainProductResponses)

\* save_to_csv(products_data, DATA_FOLDER, PRODUCTS_FILE)
MainSaveProducts ==
    /\ main_pc = "products"
    /\ p_pc = "returned"
    /\ SaveToCsv(all_products, PRODUCTS_FILE)
    /\ main_pc' = IF sink_raised' THEN "aborted" ELSE "reviews_call"
    /\ UNCHANGED <<pvars, rvars, tvars, wvars, cvars, xvars>>

\* reviews_data = scrape_reviews_graphql()
MainCallReviews ==
    /\ main_pc = "reviews_call"
    /\ main_pc' = "reviews"
    /\ all_reviews' = <<>>
    /\ cursor' = PyNone
    /\ has_next' = PyBool(TRUE)
    /\ page' = 1
    /\ r_pc' = "loop"
    /\ UNCHANGED <<r_events, r_log, r_expected, r_end, r_resp>>
    /\ UNCHANGED <<pvars, tvars, wvars, svars, cvars, xvars>>

MainReviewsStep ==
    /\ main_pc = "reviews"
    /\ ReviewsWalk(MainReviewResponses)

\* mutant of MainSaveReviews: the reviews are written over the products file
MutMainSaveReviewsWrongFile ==
    /\ main_pc = "reviews"
    /\ r_pc = "returned"
    /\ SaveToCsv(all_reviews, PRODUCTS_FILE)
    /\ main_pc' = IF sink_raised' THEN "aborted" ELSE "testimonials_call"
    /\ UNCHANGED <<pvars, rvars, tvars, wvars, cvars, xvars>>

\* save_to_csv(reviews_data, DATA_FOLDER, REVIEWS_FILE)
MainSaveReviews ==
    /\ main_pc = "reviews"
    /\ r_pc = "returned"
    /\ SaveToCsv(all_reviews, REVIEWS_FILE)
    /\ main_pc' = IF sink_raised' THEN "aborted" ELSE "testimonials_call"
    /\ UNCHANGED <<pvars, rvars, tvars, wvars, cvars, xvars>>

\* testimonials_data = scrape_testimonials()
MainCallTestimonials ==
    /\ main_pc = "testimonials_call"
    /\ main_pc' = "testimonials"
    /\ all_testimonials' = <<>>
    /\ t_page' = 1
    /\ t_pc' = "loop"
    /\ UNCHANGED <<t_events, t_branch, t_expected, t_resp>>
    /\ UNCHANGED <<pvars, rvars, wvars, svars, cvars, xvars>>

MainTestimonialsStep ==
    /\ main_pc = "testimonials"
    /\ TestimonialsWalk(MainTestimonialResponses)

\* save_to_csv(testimonials_data, DATA_FOLDER, TESTIMONIALS_FILE)
MainSaveTestimonials ==
    /\ main_pc = "testimonials"
    /\ t_pc = "returned"
    /\ SaveToCsv(all_testimonials, TESTIMONIALS_FILE)
    /\ main_pc' = IF sink_raised' THEN "aborted" ELSE "done"
    /\ UNCHANGED <<pvars, rvars, tvars, wvars, cvars, xvars>>

Init ==
    /\ main_pc = "start"
    /\ RemoteIdle
    /\ ProductsIdle /\ ReviewsIdle /\ TestimonialsIdle /\ TwinIdle
    /\ NoSinkCall
    /\ \/ folder_exists = FALSE /\ files = NoFiles
       \/ folder_exists = TRUE /\ files = StaleFiles
    /\ console = <<>>
    /\ sink_raised = FALSE
Next ==
    \/ MainCallProducts \/ MainProductsStep \/ MainSaveProducts
    \/ MainCallReviews \/ MainReviewsStep \/ MainSaveReviews
    \/ MainCallTestimonials \/ MainTestimonialsStep \/ MainSaveTestimonials
Spec == Init /\ [][Next]_vars

(***************************************************************************)
(* The collectors called concurrently (each in a thread of its own), or    *)
(* one of them alone: the iterations of the walks under way interleave in  *)
(* any order.  The responses each collector gets are recorded.             *)
(***************************************************************************)
ConcProductsStep ==
    /\ p_pc = "loop"
    /\ Len(p_log) < MaxFetches
    /\ \E resp \in ProductAnswers(MainProductResponses, current_url) :
          /\ ProductsIteration(resp)
          /\ served' = [served EXCEPT !.p = Append(@, resp)]
    /\ UNCHANGED <<dataset, first_run, catalog>>
    /\ UNCHANGED <<main_pc, rvars, tvars, wvars, svars, cvars>>

ConcReviewsStep ==
    /\ r_pc = "loop"
    /\ Len(r_log) < MaxFetches
    /\ \E resp \in MainReviewResponses :
          /\ ReviewsIteration(resp)
          /\ served' = [served EXCEPT !.r = Append(@, resp)]
    /\ UNCHANGED <<dataset, first_run, catalog>>
    /\ UNCHANGED <<main_pc, pvars, tvars, wvars, svars, cvars>>

\* mutant of ConcTestimonialsStep: `page` is one variable shared with
\* scrape_reviews_graphql
MutConcTestimonialsStepSharedPage ==
    /\ t_pc = "loop"
    /\ Len(t_branch) < MaxFetches
    /\ \E resp \in MainTestimonialResponses :
          LET it == TestimonialsIteration(all_testimonials, page, resp)
          IN /\ all_testimonials' = it.list
             /\ t_page' = it.page
             /\ page' = it.page
             /\ t_pc' = IF it.stop THEN "returned" ELSE "loop"
             /\ t_events' = t_events \o it.events
             /\ t_branch' = Append(t_branch, it.branch)
             /\ t_resp' = resp
             /\ t_expected' = IF ~it.stop
                              THEN t_expected \o PageTestimonials(resp)
                              ELSE t_expected
             /\ served' = [served EXCEPT !.t = Append(@, resp)]
    /\ UNCHANGED <<all_reviews, cursor, has_next, r_pc, r_events, r_log, r_expected,
                   r_end, r_resp>>
    /\ UNCHANGED <<dataset, first_run, catalog>>
    /\ UNCHANGED <<main_pc, pvars, wvars, svars, cvars>>

ConcTestimonialsStep ==
    /\ t_pc = "loop"
    /\ Len(t_branch) < MaxFetches
    /\ \E resp \in MainTestimonialResponses :
          /\ TestimonialsServed(resp)
          /\ served' = [served EXCEPT !.t = Append(@, resp)]
    /\ UNCHANGED <<dataset, first_run, catalog>>
    /\ UNCHANGED <<main_pc, pvars, rvars, wvars, svars, cvars>>

InitConcurrent ==
    /\ main_pc = "none"
    /\ SinkIdle
    /\ TwinIdle
    /\ RemoteIdle
    /\ \/ ProductsStart /\ ReviewsStart /\ TestimonialsStart
       \/ ProductsStart /\ ReviewsIdle /\ TestimonialsIdle
       \/ ProductsIdle /\ ReviewsStart /\ TestimonialsIdle
       \/ ProductsIdle /\ ReviewsIdle /\ TestimonialsStart
NextConcurrent == ConcProductsStep \/ ConcReviewsStep \/ ConcTestimonialsStep
SpecConcurrent == InitConcurrent /\ [][NextConcurrent]_vars

(***************************************************************************)
(* Properties.                                                             *)
(***************************************************************************)
Requests(events) == Cardinality({i \in 1..Len(events) : events[i] = "request"})
Pauses(events) == Cardinality({i \in 1..Len(events) : events[i] = "pause"})
Last(seq) == seq[Len(seq)]

\* C1: when the fetch of page k > 1 fails, each collector returns exactly the
\* records of pages 1..k-1, in order, and nothing of page k.
C1_FetchFailureKeepsEarlierPages ==
    /\ (p_pc = "returned" /\ p_failed /\ Len(p_log) > 1) => all_products = p_expected
    /\ (r_pc = "returned" /\ r_end = "fetch" /\ Len(r_log) > 1)
          => all_reviews = r_expected
    /\ (t_pc = "returned" /\ Len(t_branch) > 1 /\ Last(t_branch) = "error")
          => all_testimonials = t_expected
\* the review walk failed on its third request after two pages with records
C1_Witness ==
    /\ r_pc = "returned" /\ r_end = "fetch" /\ Len(r_log) = 3
    /\ Len(all_reviews) = 4

\* C2: a response with empty edges ends the review walk at once, whatever its
\* hasNextPage: the walk has returned, no pause follows the request, and the
\* list holds the records of the earlier pages.
C2_EmptyEdgesStop ==
    (r_resp.kind = "doc" /\ r_resp.data # "null" /\ r_resp.edges = <<>>)
        => /\ r_pc = "returned"
           /\ Last(r_events) = "request"
           /\ Requests(r_events) = Len(r_log)
           /\ all_reviews = r_expected
\* edges = [e1, e2] with hasNextPage true, then edges = [] with hasNextPage true
C2_Witness ==
    /\ r_resp.kind = "doc" /\ r_resp.edges = <<>>
    /\ r_resp.pageInfo.hasNextPage = Some(PyBool(TRUE))
    /\ Len(r_log) = 2
    /\ Len(all_reviews) = 2
    /\ r_pc = "returned"

\* C3: a product walk without fetch failure requests the catalog root, then
\* the page each served page links to, stops at the first page without next
\* link, and returns the well-formed records of the pages in page order.
C3_ChainWalk ==
    (p_pc = "returned" /\ ~p_failed)
        => /\ Len(p_log) = Len(p_next)
           /\ Requests(p_events) = Len(p_next)
           /\ p_log[1] = Url(1)
           /\ \A i \in 1..(Len(p_log) - 1) : p_log[i + 1] = p_next[i]
           /\ Last(p_next) = NoUrl
           /\ all_products = p_expected
\* two products and a next link, then one product and no next link
C3_Witness ==
    /\ p_pc = "returned" /\ ~p_failed
    /\ p_log = <<Url(1), Url(2)>>
    /\ Len(all_products) = 3

\* C4: in the product walk requests and pauses alternate, starting with a
\* request; a walk that has returned ends on a request, so n requests take
\* n - 1 pauses, and a walk about to fetch again has just paused.
C4_PauseBetweenFetches ==
    /\ \A i \in 1..Len(p_events) :
          p_events[i] = IF i % 2 = 1 THEN "request" ELSE "pause"
    /\ p_pc = "returned" => Pauses(p_events) = Requests(p_events) - 1
    /\ (p_pc = "loop" /\ p_events # <<>>) => Last(p_events) = "pause"
\* three fetches and two pauses
C4_Witness ==
    /\ p_pc = "returned" /\ ~p_failed
    /\ Requests(p_events) = 3 /\ Pauses(p_events) = 2

\* no two requests of a walk follow each other without a pause between them
Paced(events) ==
    \A i \in 1..(Len(events) - 1) :
        ~(events[i] = "request" /\ events[i + 1] = "request")
\* the number of the request that events[i] is, or follows
RequestIndex(events, i) == Cardinality({j \in 1..i : events[j] = "request"})

\* C5 (as claimed): in each of the three collectors, JSON branch of the
\* testimonial collector included, a pause lies between any two consecutive
\* requests.
C5_PauseBeforeEveryNextRequest ==
    Paced(p_events) /\ Paced(r_events) /\ Paced(t_events)

\* C5 (amended): a pause lies between any two consecutive requests of the
\* product collector and of the review collector; in the testimonial
\* collector a request is followed by the next request without a pause exactly
\* when its response was consumed whole by the JSON branch.
C5_PauseExceptAfterJsonPage ==
    /\ Paced(p_events)
    /\ Paced(r_events)
    /\ \A i \in 1..(Len(t_events) - 1) :
          t_events[i] = "request"
             => (t_events[i + 1] = "request"
                    <=> t_branch[RequestIndex(t_events, i)] = "json")
\* an HTML page, then a JSON page, then a third request: one pause after the
\* first request, none after the second
C5_Witness ==
    /\ Len(t_branch) = 3
    /\ t_branch[1] = "html" /\ t_branch[2] = "json"
    /\ t_events = <<"request", "pause", "request", "request">>

\* what save_to_csv leaves in the file of a collector that returned list, the
\* file being before as the run started
Written(list, before) ==
    IF list = <<>> THEN before
    ELSE Some(Table(DOMAIN list[1], list))

\* C6: in the main run no failure inside a collector ends the run: the run is
\* never aborted, each save follows the return of its collector, and once the
\* run is done every collector has returned and its list (after a fetch
\* failure: the records of the pages before it) is what the sink was given
\* and wrote.
C6_FailuresDoNotAbortTheRun ==
    /\ main_pc # "aborted"
    /\ main_pc \in {"reviews_call", "reviews", "testimonials_call", "testimonials", "done"}
          => /\ p_pc = "returned"
             /\ \E before \in {None, Some(StaleTable)} :
                   files[PRODUCTS_FILE] = Written(all_products, before)
             /\ p_failed => all_products = p_expected
    /\ main_pc \in {"testimonials_call", "testimonials", "done"}
          => /\ r_pc = "returned"
             /\ \E before \in {None, Some(StaleTable)} :
                   files[REVIEWS_FILE] = Written(all_reviews, before)
             /\ r_end = "fetch" => all_reviews = r_expected
    /\ main_pc = "done"
          => /\ t_pc = "returned"
             /\ \E before \in {None, Some(StaleTable)} :
                   files[TESTIMONIALS_FILE] = Written(all_testimonials, before)
             /\ Last(t_branch) = "error" => all_testimonials = t_expected
             /\ Len(console) = 3
\* every collector failed on its second request and the run still wrote the
\* three files
C6_Witness ==
    /\ main_pc = "done"
    /\ p_failed /\ Len(p_log) = 2 /\ Len(all_products) = 1
    /\ r_end = "fetch" /\ Len(r_log) = 2 /\ Len(all_reviews) = 1
    /\ Last(t_branch) = "error" /\ Len(t_branch) = 2 /\ Len(all_testimonials) = 1
    /\ files[PRODUCTS_FILE] = Some(Table({"name", "price", "description"}, all_products))
    /\ files[REVIEWS_FILE] = Some(Table({"date", "stars", "text"}, all_reviews))
    /\ files[TESTIMONIALS_FILE] = Some(Table({"text", "stars"}, all_testimonials))

\* the call of save_to_csv made alone is over
SinkCallOver == sink_call.pc \in {"returned", "raised"}
\* a record after the first whose field set differs from the first record's
Mismatched(data) == {i \in 2..Len(data) : DOMAIN data[i] # DOMAIN data[1]}

\* C7 (as claimed): save_to_csv raises whenever a record after the first has
\* a field set other than the first record's, whether it has an extra field
\* or lacks one, and writes no row for such a record.
C7_SchemaMismatchRaises ==
    (SinkCallOver /\ Mismatched(sink_call.data) # {})
        => /\ sink_call.pc = "raised"
           /\ \A i \in Mismatched(sink_call.data) :
                 Len(files[sink_call.filename][1].rows) < i

\* C8: save_to_csv given an empty list writes no file and creates no folder
\* (the file system is as before the call, an earlier output file included),
\* prints that there is nothing to save, and returns normally.
C8_EmptyInputWritesNothing ==
    (SinkCallOver /\ sink_call.data = <<>>)
        => /\ sink_call.pc = "returned"
           /\ ~sink_raised
           /\ folder_exists = sink_call.folder0
           /\ files = sink_call.files0
           /\ console = <<<<"No data to save for", sink_call.filename>>>>
\* an empty list handed over while the output of an earlier run exists
C8_Witness ==
    /\ sink_call.pc = "returned" /\ sink_call.data = <<>>
    /\ files = StaleFiles

\* C9 (as claimed): the stars of every record of the testimonial list is an
\* integer in 0..5, whichever branch made the record.
C9_StarsInRange ==
    \A i \in 1..Len(all_testimonials) :
        /\ all_testimonials[i].stars.t = "int"
        /\ all_testimonials[i].stars.v \in 0..5

\* C10 (as claimed): over the same pages of items, the walk served JSON and
\* the walk served HTML fragments return the same list of records.
C10_BranchesAgree ==
    (twin_json.pc = "returned" /\ twin_html.pc = "returned")
        => twin_json.list = twin_html.list

\* one record per edge of every decoded response with edges that the review
\* walk has processed so far, in the order served: the pages consumed whole,
\* then the page on which the walk ended inside the try
EdgesProcessed ==
    r_expected \o (IF r_end \in {"edge", "pageinfo"}
                   THEN PageReviews(r_resp.edges)
                   ELSE <<>>)

\* C11 (as claimed): at every point of a review walk the list holds exactly
\* one record per edge of the non-empty responses processed so far, in the
\* order served; no edge is dropped, duplicated or reordered.
C11_OneRecordPerEdge == all_reviews = EdgesProcessed

\* C20 (as claimed): the review list is a concatenation of complete pages: when
\* the processing of a response fails after its request succeeded (body that
\* does not decode, malformed edge, pageInfo that is no object), the list
\* holds no record of that response.
C20_FailedPageLeavesNoRecord ==
    r_end \in {"decode", "edge", "pageinfo"} => all_reviews = r_expected

\* the endCursor of a response, null when pageInfo has none
EndCursorOf(resp) ==
    IF resp.pageInfo.endCursor = <<>> THEN PyNone ELSE resp.pageInfo.endCursor[1]

\* C15: the first review request carries after = null; the after of every
\* later request is the endCursor of the response before it, unmodified; and a
\* later request is issued only when the response before it was a decoded
\* document with non-empty edges whose pageInfo has hasNextPage true (a
\* missing hasNextPage counts as false).
C15_CursorRoundTrip ==
    [][r_log' # r_log =>
          /\ r_log' = Append(r_log, IF r_log = <<>> THEN PyNone ELSE EndCursorOf(r_resp))
          /\ r_log # <<>> =>
                /\ r_resp.kind = "doc"
                /\ r_resp.edges # <<>>
                /\ r_resp.pageInfo.kind = "dict"
                /\ r_resp.pageInfo.hasNextPage = Some(PyBool(TRUE))]_vars
\* three requests: null, then the two cursors the server handed out
C15_Witness ==
    r_log = <<PyNone, PyStr(<<"c", "1">>), PyStr(<<"c", "2">>)>>

\* C18: a container lacking its name, price or description adds no record
\* and does not end the page: a page served adds the records of its other
\* containers, in document order, and the walk goes on to the page its next
\* link names (to the end when it names none), whatever the containers were,
\* none at all included.
C18_LackingContainerSkipped ==
    [][(p_log' # p_log /\ ~p_failed') =>
          /\ all_products' = all_products \o PageRecords(p_containers')
          /\ current_url' = Last(p_next')
          /\ p_pc' = IF Last(p_next') = NoUrl THEN "returned" ELSE "loop"]_vars
\* the first page served held a lacking container between two whole ones and
\* a next link: two records, and the walk is about to fetch the second page
C18_Witness ==
    /\ \E c \in Lacking : p_containers = <<FullA, c, FullB>>
    /\ all_products = PageRecords(<<FullA, FullB>>)
    /\ p_log = <<Url(1)>>
    /\ current_url = Url(2)
    /\ p_pc = "loop"

\* C16: a testimonial response whose status is not 200 ends the walk: its
\* body, whatever it holds, adds no record (the list is the records of the
\* pages consumed before it), the walk has returned, and the request that
\* got the response is the last thing the walk did.
C16_StatusEndsWalk ==
    t_resp.kind = "status"
        => /\ t_pc = "returned"
           /\ all_testimonials = t_expected
           /\ Last(t_events) = "request"
           /\ t_page = Len(t_branch)
\* one page consumed, then a status other than 200 whose body is a JSON
\* list of one item
C16_Witness ==
    /\ t_resp = TestimonialResponse("status", JsonList(<<ItemA>>), <<>>)
    /\ Len(t_branch) = 2
    /\ Len(all_testimonials) = 1
    /\ t_pc = "returned"

\* C17 (as claimed): the k-th testimonial request is for page k, and the page
\* counter goes up by exactly 1 after a response that added records to the
\* list and stays as it is after any other response, whichever branch
\* consumed the response.
C17_PageCounterSequence ==
    [][t_branch' # t_branch =>
          /\ t_page = Len(t_branch')
          /\ t_page' = IF all_testimonials' # all_testimonials
                       THEN t_page + 1
                       ELSE t_page]_vars

\* the records of all the items of a JSON body, none when an item is no object
WholeJsonPage(resp) ==
    LET items == JsonItemsOf(resp)
    IN IF \A i \in 1..Len(items) : items[i].kind = "dict"
       THEN [i \in 1..Len(items) |-> JsonRecord(items[i])]
       ELSE <<>>
\* the records of the testimonial elements of an HTML body
HtmlPage(resp) == [i \in 1..Len(resp.html) |-> DivRecord(resp.html[i])]

\* C19 (as claimed): a testimonial response with status 200 adds records
\* through one branch only: a body that decodes as JSON adds the records of
\* all of its items or nothing, never records made by the HTML branch and
\* never a part of its items; only a body that does not decode as JSON adds
\* the records of its testimonial elements.
C19_OneBranchPerResponse ==
    [][(t_branch' # t_branch /\ t_resp'.kind = "ok") =>
          LET added == SubSeq(all_testimonials', Len(all_testimonials) + 1,
                              Len(all_testimonials'))
          IN IF t_resp'.json.kind = "notjson"
             THEN added = HtmlPage(t_resp')
             ELSE added \in {<<>>, WholeJsonPage(t_resp')}]_vars

\* seq is the beginning of whole
IsPrefix(seq, whole) ==
    Len(seq) <= Len(whole) /\ seq = SubSeq(whole, 1, Len(seq))

\* C12: a second review walk against the same unchanged data, no request
\* failing, sends the requests of the first walk, in the same order, and
\* returns the list the first walk returned.
C12_RerunSameResult ==
    first_run.done
        => /\ IsPrefix(r_log, first_run.log)
           /\ IsPrefix(all_reviews, first_run.list)
           /\ r_pc = "returned" => (r_log = first_run.log /\ all_reviews = first_run.list)
\* both walks took two pages and returned three records
C12_Witness ==
    /\ first_run.done
    /\ r_pc = "returned"
    /\ Len(first_run.log) = 2
    /\ r_log = first_run.log
    /\ Len(first_run.list) = 3
    /\ all_reviews = first_run.list

\* what scrape_products holds after the responses resps, from the state st
\* ([list, url, log, pc]), when nothing else runs
RECURSIVE ProductsAlone(_, _)
ProductsAlone(resps, st) ==
    IF resps = <<>> THEN st
    ELSE LET resp == Head(resps)
             next_link == FindNextLink(resp.paging)
         IN ProductsAlone(Tail(resps),
                IF ~resp.ok
                THEN [list |-> st.list, url |-> st.url,
                      log |-> Append(st.log, st.url), pc |-> "returned"]
                ELSE [list |-> ExtractProducts(resp.containers, st.list),
                      url |-> next_link,
                      log |-> Append(st.log, st.url),
                      pc |-> IF next_link = NoUrl THEN "returned" ELSE "loop"])

\* the same for scrape_reviews_graphql, st being [list, cursor, log, pc]
RECURSIVE ReviewsAlone(_, _)
ReviewsAlone(resps, st) ==
    IF resps = <<>> THEN st
    ELSE LET resp == Head(resps)
             log == Append(st.log, st.cursor)
             done == AppendReviews(resp.edges, st.list)
             more == Truthy(GetOr(resp.pageInfo.hasNextPage, PyBool(FALSE)))
         IN ReviewsAlone(Tail(resps),
                IF resp.kind # "doc" \/ resp.data = "null" \/ resp.edges = <<>>
                THEN [list |-> st.list, cursor |-> st.cursor, log |-> log,
                      pc |-> "returned"]
                ELSE IF done.raised \/ resp.pageInfo.kind = "null"
                THEN [list |-> done.list, cursor |-> st.cursor, log |-> log,
                      pc |-> "returned"]
                ELSE [list |-> done.list, cursor |-> NextCursor(resp.pageInfo),
                      log |-> log, pc |-> IF more THEN "loop" ELSE "returned"])

\* the same for scrape_testimonials, st being [list, page, log, pc]; log
\* holds the page numbers requested
RECURSIVE TestimonialsAlone(_, _)
TestimonialsAlone(resps, st) ==
    IF resps = <<>> THEN st
    ELSE LET it == TestimonialsIteration(st.list, st.page, Head(resps))
         IN TestimonialsAlone(Tail(resps),
                [list |-> it.list, page |-> it.page, log |-> Append(st.log, st.page),
                 pc |-> IF it.stop THEN "returned" ELSE "loop"])

\* every walk under way is where it would be had it got its responses alone
SameAsAlone ==
    /\ p_pc # "idle" =>
          LET st == ProductsAlone(served.p, [list |-> <<>>, url |-> Url(1),
                                             log |-> <<>>, pc |-> "loop"])
          IN all_products = st.list /\ current_url = st.url
             /\ p_log = st.log /\ p_pc = st.pc
    /\ r_pc # "idle" =>
          LET st == ReviewsAlone(served.r, [list |-> <<>>, cursor |-> PyNone,
                                            log |-> <<>>, pc |-> "loop"])
          IN all_reviews = st.list /\ cursor = st.cursor
             /\ r_log = st.log /\ r_pc = st.pc
    /\ t_pc # "idle" =>
          LET st == TestimonialsAlone(served.t, [list |-> <<>>, page |-> 1,
                                                 log |-> <<>>, pc |-> "loop"])
          IN all_testimonials = st.list /\ t_page = st.page
             /\ st.log = [i \in 1..Len(t_branch) |-> i] /\ t_pc = st.pc

\* a step of one collector changes no variable of another
OwnVariablesOnly ==
    /\ p_log' # p_log => UNCHANGED <<rvars, tvars>>
    /\ r_log' # r_log => UNCHANGED <<pvars, tvars>>
    /\ t_branch' # t_branch => UNCHANGED <<pvars, rvars>>

\* C13: the three collectors share no mutable state: however their
\* iterations interleave, each has sent the requests and holds the list it
\* would have after the same responses when run alone, and no step of one
\* changes the url, cursor, page counter or list of another.
C13_CollectorsIndependent == []SameAsAlone /\ [][OwnVariablesOnly]_vars
\* the three walks were under way together and have returned, each after two
\* requests and with one record
C13_Witness ==
    /\ p_pc = "returned" /\ r_pc = "returned" /\ t_pc = "returned"
    /\ Len(p_log) = 2 /\ Len(r_log) = 2 /\ Len(t_branch) = 2
    /\ Len(all_products) = 1 /\ Len(all_reviews) = 1 /\ Len(all_testimonials) = 1

\* C14 (as claimed): under fair scheduling every walk under way eventually
\* ends and returns its list, whatever the remote site serves over its
\* finite set of pages.
C14_EveryWalkTerminates ==
    <>(p_pc # "loop" /\ r_pc # "loop" /\ t_pc # "loop")

====
